---- MODULE Spec2Model ----
(***************************************************************************)
(* Submission lifecycle of kickoff-bot (src/main.py): the SQLite table     *)
(* `applications` (the Store), the backup_<id>.json files (the Journal),   *)
(* the webhook ingestion path, the moderator's decision handlers, the bulk *)
(* operations, retention cleanup and restore.                              *)
(*                                                                         *)
(* aiogram runs every update as its own asyncio task, so a handler is      *)
(* atomic between two awaits and handlers interleave at their awaits.      *)
(* Each action below is one such atomic section.                           *)
(***************************************************************************)
EXTENDS Integers, Sequences, FiniteSets, TLC

\* ---------------------------------------------------------------- bounds
MaxIds == 2
MaxTasks == 2
MaxIngest == 2

\* ------------------------------------------------------ program constants
CleanupDays == 30
BulkRejectDays == 7
NULL == -1
NoFile == 0

Ids == 1..MaxIds
Tasks == 1..MaxTasks
\* the instants (in days) the clock is observed at: the start, after more
\* than BulkRejectDays, after more than CleanupDays
Instants == {0, BulkRejectDays + 1, CleanupDays + 1}

Users == {"admin", "other"}
ADMIN_ID == "admin"

\* form names: "Студент", "Стартап", the test form "Тест"
Student == "Student"
Startup == "Startup"
TestForm == "Test"

\* ---------------------------------------------------------------- payloads
\* A webhook body, reduced to what the code reads: the eventType key, the
\* data key ("absent", "nofields" = a dict without 'fields', "fields",
\* "notdict" = a list or string that contains 'fields'), and data.formName
\* ("absent" when the key is missing).
MkPayload(e, d, f) == [eventType |-> e, data |-> d, formName |-> f]

ValidPayloads == { MkPayload("FORM_RESPONSE", "fields", f) : f \in {Student, Startup, "absent"} }

InvalidPayloads ==
    { MkPayload("absent", "fields", Student),
      MkPayload("OTHER", "fields", Student),
      MkPayload("FORM_RESPONSE", "absent", "absent"),
      MkPayload("FORM_RESPONSE", "nofields", Student),
      MkPayload("FORM_RESPONSE", "notdict", "absent") }

Payloads == ValidPayloads \cup InvalidPayloads

test_data == MkPayload("FORM_RESPONSE", "fields", TestForm)

\* data.get('data', {}).get('formName', default)
formName(data, default) ==
    IF data.data = "absent" \/ data.formName = "absent" THEN default ELSE data.formName

\* mutant: the test for the 'fields' key is forgotten
validate_webhook_data_without_fields_test(data) ==
    /\ data.eventType # "absent"
    /\ data.data # "absent"
    /\ data.eventType = "FORM_RESPONSE"

\* `'fields' not in data.get('data', {})` is a membership test, which a list
\* or a string containing 'fields' passes as well
validate_webhook_data(data) ==
    /\ data.eventType # "absent"
    /\ data.data # "absent"
    /\ data.eventType = "FORM_RESPONSE"
    /\ data.data \in {"fields", "notdict"}

\* data.get('data', {}).get('formName', '') raises AttributeError when the
\* value under 'data' is no dict
formNameRaises(data) == data.data = "notdict"

\* json.dumps / json.loads of the stored payload
json_dumps(data) == <<"json", data>>
json_loads(text) == text[2]

backup_filename(app_id) == app_id

\* ------------------------------------------------------------------ Store
\* The applications table: a function from the ids present to rows.
Row(form_name, status, created_at, approved_at, data, backup_file) ==
    [form_name |-> form_name, status |-> status, created_at |-> created_at,
     approved_at |-> approved_at, data |-> data, backup_file |-> backup_file]

PutRow(s, app_id, row) ==
    [x \in (DOMAIN s) \cup {app_id} |-> IF x = app_id THEN row ELSE s[x]]

\* mutant: INSERT OR IGNORE, the row already stored under the id is kept
save_application_or_ignore(s, app_id, form_name, data, backup_file, t, ok) ==
    IF ok /\ app_id \notin DOMAIN s
    THEN PutRow(s, app_id, Row(form_name, "pending", t, NULL, json_dumps(data), backup_file))
    ELSE s

\* INSERT OR REPLACE: the whole row is replaced, approved_at is left NULL.
\* ok = FALSE is the swallowed sqlite exception: nothing is written.
save_application(s, app_id, form_name, data, backup_file, t, ok) ==
    IF ok
    THEN PutRow(s, app_id, Row(form_name, "pending", t, NULL, json_dumps(data), backup_file))
    ELSE s

\* mutant: the timestamp is written for every decision, not only approvals
update_application_status_any_decision(s, app_id, status, t, ok) ==
    IF ok /\ app_id \in DOMAIN s
    THEN [s EXCEPT ![app_id].status = status, ![app_id].approved_at = t]
    ELSE s

\* mutant: the UPDATE stamps created_at as well
update_application_status_stamps_created_at(s, app_id, status, t, ok) ==
    IF ok /\ app_id \in DOMAIN s
    THEN [s EXCEPT ![app_id].status = status,
                   ![app_id].approved_at = IF status = "approved" THEN t ELSE NULL,
                   ![app_id].created_at = t]
    ELSE s

\* UPDATE ... SET status = ?, approved_at = ? WHERE id = ?   (no status test)
update_application_status(s, app_id, status, t, ok) ==
    IF ok /\ app_id \in DOMAIN s
    THEN [s EXCEPT ![app_id].status = status,
                   ![app_id].approved_at = IF status = "approved" THEN t ELSE NULL]
    ELSE s

NoApplication == [found |-> FALSE]

\* mutant: the query finds no row
get_application_finds_nothing(s, app_id) == NoApplication

\* SELECT id, form_name, data, status, created_at ... WHERE id = ?
get_application(s, app_id) ==
    IF app_id \in DOMAIN s
    THEN [found |-> TRUE, id |-> app_id, form_name |-> s[app_id].form_name,
          data |-> json_loads(s[app_id].data), status |-> s[app_id].status,
          created_at |-> s[app_id].created_at]
    ELSE NoApplication

\* mutant: the status test is forgotten
NotPending_found_only(application) == ~application.found

\* mutant: the `not application` test is forgotten
NotPending_status_only(application) == application.found /\ application.status # "pending"

\* the test  `not application or application['status'] != 'pending'`
NotPending(application) == ~application.found \/ application.status # "pending"

PendingIds(s) == { x \in DOMAIN s : s[x].status = "pending" }

\* SELECT ... WHERE status = 'pending' ORDER BY created_at DESC: the set of
\* row orders the query may return (rows of equal created_at in any order).
get_pending_applications(s) ==
    LET P == PendingIds(s)
        n == Cardinality(P)
    IN { q \in [1..n -> P] :
            /\ \A i, j \in 1..n : i # j => q[i] # q[j]
            /\ \A i, j \in 1..n : i < j => s[q[i]].created_at >= s[q[j]].created_at }

\* mutant: the status test of the DELETE is forgotten
CleanupDeleted_any_status(s, days_old, t) ==
    { x \in DOMAIN s : s[x].created_at < t - days_old }

\* mutant: the cutoff instant itself is deleted too
CleanupDeleted_through_cutoff(s, days_old, t) ==
    { x \in DOMAIN s : s[x].created_at <= t - days_old /\ s[x].status # "pending" }

\* DELETE ... WHERE created_at < cutoff AND status != 'pending'
CleanupDeleted(s, days_old, t) ==
    { x \in DOMAIN s : s[x].created_at < t - days_old /\ s[x].status # "pending" }

cleanup_old_applications(s, days_old, t) ==
    [x \in (DOMAIN s) \ CleanupDeleted(s, days_old, t) |-> s[x]]

\* SELECT COUNT(*) FROM applications WHERE status = ...
CountStatus(s, status) == Cardinality({ x \in DOMAIN s : s[x].status = status })

\* SELECT COUNT(*) FROM applications WHERE form_name = ...
CountForm(s, form_name) == Cardinality({ x \in DOMAIN s : s[x].form_name = form_name })

\* mutant: the pending query counts every record that is not approved
get_statistics_pending_not_approved(s) ==
    [total_received |-> Cardinality(DOMAIN s),
     total_approved |-> CountStatus(s, "approved"),
     total_rejected |-> CountStatus(s, "rejected"),
     pending        |-> Cardinality(DOMAIN s) - CountStatus(s, "approved"),
     startup_forms  |-> CountForm(s, Startup),
     student_forms  |-> CountForm(s, Student)]

\* mutant: the counters are read from the `statistics` table, which
\* init_database creates and no code writes
get_statistics_from_statistics_table(s) ==
    [total_received |-> 0, total_approved |-> 0, total_rejected |-> 0,
     pending |-> 0, startup_forms |-> 0, student_forms |-> 0]

\* the six counting queries of get_statistics
get_statistics(s) ==
    [total_received |-> Cardinality(DOMAIN s),
     total_approved |-> CountStatus(s, "approved"),
     total_rejected |-> CountStatus(s, "rejected"),
     pending        |-> CountStatus(s, "pending"),
     startup_forms  |-> CountForm(s, Startup),
     student_forms  |-> CountForm(s, Student)]

\* ---------------------------------------------------------------- Journal
backup_application(j, app_id, data, t) ==
    PutRow(j, app_id, [id |-> app_id, timestamp |-> t, data |-> data])

\* ------------------------------------------------------------------ state
VARIABLES
    store,      \* the applications table
    journal,    \* the backup_<id>.json files, by id
    now,        \* datetime.now()
    published,  \* per id, the messages delivered to CHANNEL_ID
    notified,   \* the ids whose moderation prompt reached the admin
    tasks,      \* the /approve, /reject and button handler tasks
    bulk,       \* the bulk_callback_handler task
    bg,         \* the webhook's BackgroundTasks still to run
    ingested,   \* webhook and test-webhook requests served so far
    reply       \* what the last step answered: the request and the HTTP
                \* response of an ingestion endpoint, the reply of /cleanup
                \* or /restore, what a read handler sent

vars == <<store, journal, now, published, notified, tasks, bulk, bg, ingested, reply>>

Empty == [x \in {} |-> 0]

NoReply == [op |-> "none"]

IdleTask == [kind |-> "idle", pc |-> "idle", app_id |-> 0, result |-> "none"]

IdleBulk == [pc |-> "idle", action |-> "none", pending_apps |-> <<>>, i |-> 0,
             processed_count |-> 0, result |-> "none"]

Init ==
    /\ store = Empty
    /\ journal = Empty
    /\ now = 0
    /\ published = [x \in Ids |-> 0]
    /\ notified = {}
    /\ tasks = [t \in Tasks |-> IdleTask]
    /\ bulk = IdleBulk
    /\ bg = {}
    /\ ingested = 0
    /\ reply = NoReply

\* the clock between two atomic sections
Tick(t) ==
    /\ t > now
    /\ now' = t
    /\ reply' = NoReply
    /\ UNCHANGED <<store, journal, published, notified, tasks, bulk, bg, ingested>>

\* -------------------------------------------------------------- ingestion
\* generate_application_id(): a random token, which may repeat an id already
\* handed out.  The ids are interchangeable, so a new one is the least id
\* that no request has carried yet.
UsedIds == (DOMAIN store) \cup (DOMAIN journal) \cup { job.app_id : job \in bg }

FreshOrUsed(app_id) == \A x \in Ids : x < app_id => x \in UsedIds

\* POST /webhook up to its response; the two background tasks run after it.
webhook_handler(data, app_id, dbok) ==
    /\ ingested < MaxIngest
    /\ FreshOrUsed(app_id)
    /\ ingested' = ingested + 1
    /\ IF ~validate_webhook_data(data)
       THEN /\ reply' = [op |-> "webhook", request |-> data, code |-> 400, status |-> "error"]
            /\ UNCHANGED <<store, bg>>
       ELSE IF formNameRaises(data)
       THEN /\ reply' = [op |-> "webhook", request |-> data, code |-> 500, status |-> "error"]
            /\ UNCHANGED <<store, bg>>
       ELSE /\ store' = save_application(store, app_id, formName(data, ""), data,
                                         backup_filename(app_id), now, dbok)
            /\ bg' = bg \cup {[app_id |-> app_id, data |-> data, pc |-> "backup"]}
            /\ reply' = [op |-> "webhook", request |-> data, code |-> 200,
                         status |-> "success", application_id |-> app_id,
                         form_type |-> formName(data, ""), saved_to_database |-> TRUE]
    /\ UNCHANGED <<journal, now, published, notified, tasks, bulk>>

\* background task 1: backup_application(app_id, data); ok = FALSE is its
\* swallowed exception
BackgroundBackup(job, ok) ==
    /\ job \in bg
    /\ job.pc = "backup"
    /\ journal' = IF ok THEN backup_application(journal, job.app_id, job.data, now) ELSE journal
    /\ bg' = (bg \ {job}) \cup {[job EXCEPT !.pc = "notify"]}
    /\ reply' = NoReply
    /\ UNCHANGED <<store, now, published, notified, tasks, bulk, ingested>>

\* mutant: a failed notification takes the stored submission back
send_notification_to_admin_rolls_back(job, ok) ==
    /\ job \in bg
    /\ job.pc = "notify"
    /\ notified' = IF ok THEN notified \cup {job.app_id} ELSE notified
    /\ store' = IF ok THEN store ELSE [x \in (DOMAIN store) \ {job.app_id} |-> store[x]]
    /\ bg' = bg \ {job}
    /\ reply' = NoReply
    /\ UNCHANGED <<journal, now, published, tasks, bulk, ingested>>

\* background task 2: send_notification_to_admin; a failure is only logged
send_notification_to_admin(job, ok) ==
    /\ job \in bg
    /\ job.pc = "notify"
    /\ notified' = IF ok THEN notified \cup {job.app_id} ELSE notified
    /\ bg' = bg \ {job}
    /\ reply' = NoReply
    /\ UNCHANGED <<store, journal, now, published, tasks, bulk, ingested>>

\* POST /test-webhook: saves without a backup file, then messages the admin
test_webhook(app_id, dbok, sendok) ==
    /\ ingested < MaxIngest
    /\ FreshOrUsed(app_id)
    /\ ingested' = ingested + 1
    /\ store' = save_application(store, app_id, formName(test_data, ""), test_data, NoFile, now, dbok)
    /\ notified' = IF sendok THEN notified \cup {app_id} ELSE notified
    /\ reply' = IF sendok
                   THEN [op |-> "test_webhook", request |-> test_data, code |-> 200,
                         status |-> "success", application_id |-> app_id,
                         saved_to_database |-> TRUE]
                   ELSE [op |-> "test_webhook", request |-> test_data, code |-> 200,
                         status |-> "error"]
    /\ UNCHANGED <<journal, now, published, tasks, bulk, bg>>

\* -------------------------------------------------------------- decisions
\* A handler task takes the first free slot (the slots are interchangeable).
FreeSlot(t) ==
    /\ tasks[t].pc = "idle"
    /\ \A u \in Tasks : u < t => tasks[u].pc # "idle"

Finished(kind, app_id, result) ==
    [kind |-> kind, pc |-> "done", app_id |-> app_id, result |-> result]

\* mutant: the status is committed before the publish is attempted
ApproveStart_commit_first(t, kind, user, app_id) ==
    /\ FreeSlot(t)
    /\ IF user # ADMIN_ID
       THEN /\ tasks' = [tasks EXCEPT ![t] = Finished(kind, app_id, "no_permission")]
            /\ UNCHANGED store
       ELSE IF ~get_application(store, app_id).found \/ get_application(store, app_id).status # "pending"
       THEN /\ tasks' = [tasks EXCEPT ![t] = Finished(kind, app_id, "not_pending")]
            /\ UNCHANGED store
       ELSE /\ store' = update_application_status(store, app_id, "approved", now, TRUE)
            /\ tasks' = [tasks EXCEPT ![t] = [kind |-> kind, pc |-> "send", app_id |-> app_id,
                                              result |-> "none"]]
    /\ reply' = NoReply
    /\ UNCHANGED <<journal, now, published, notified, bulk, bg, ingested>>

\* approve_handler and approve_callback_handler up to `await bot.send_message`:
\* the admin test, get_application and the pending test.  "not_pending" is the
\* reply "не найдена в ожидающих" / "уже обработана или не найдена".
ApproveStart(t, kind, user, app_id) ==
    /\ FreeSlot(t)
    /\ tasks' = [tasks EXCEPT ![t] =
            IF user # ADMIN_ID THEN Finished(kind, app_id, "no_permission")
            ELSE IF NotPending(get_application(store, app_id))
                 THEN Finished(kind, app_id, "not_pending")
                 ELSE [kind |-> kind, pc |-> "send", app_id |-> app_id, result |-> "none"]]
    /\ reply' = NoReply
    /\ UNCHANGED <<store, journal, now, published, notified, bulk, bg, ingested>>

approve_handler(t, user, app_id) == ApproveStart(t, "approve_handler", user, app_id)

approve_callback_handler(t, user, app_id) == ApproveStart(t, "approve_callback_handler", user, app_id)

\* mutant: a failed publish still marks the application approved
ApprovePublish_commit_on_failure(t, ok) ==
    /\ tasks[t].pc = "send"
    /\ published' = IF ok THEN [published EXCEPT ![tasks[t].app_id] = @ + 1] ELSE published
    /\ store' = IF ok THEN store
                ELSE update_application_status(store, tasks[t].app_id, "approved", now, TRUE)
    /\ tasks' = [tasks EXCEPT ![t] =
            IF ok THEN [@ EXCEPT !.pc = "sent"]
            ELSE Finished(@.kind, @.app_id, "publish_error")]
    /\ reply' = NoReply
    /\ UNCHANGED <<journal, now, notified, bulk, bg, ingested>>

\* `await bot.send_message(CHANNEL_ID, public_message)` of a single approval:
\* delivered (ok), or raising into the handler's except branch, which reports
\* the error and ends the handler.
ApprovePublish(t, ok) ==
    /\ tasks[t].pc = "send"
    /\ published' = IF ok THEN [published EXCEPT ![tasks[t].app_id] = @ + 1] ELSE published
    /\ tasks' = [tasks EXCEPT ![t] =
            IF ok THEN [@ EXCEPT !.pc = "sent"]
            ELSE Finished(@.kind, @.app_id, "publish_error")]
    /\ reply' = NoReply
    /\ UNCHANGED <<store, journal, now, notified, bulk, bg, ingested>>

\* the handler resumed after the send: update_application_status(app_id,
\* 'approved') and the success reply
ApproveCommit(t, dbok) ==
    /\ tasks[t].pc = "sent"
    /\ store' = update_application_status(store, tasks[t].app_id, "approved", now, dbok)
    /\ tasks' = [tasks EXCEPT ![t] = Finished(@.kind, @.app_id, "approved")]
    /\ reply' = NoReply
    /\ UNCHANGED <<journal, now, published, notified, bulk, bg, ingested>>

\* mutant: the sender is not compared with ADMIN_ID
Reject_without_admin_test(t, kind, user, app_id, dbok) ==
    /\ FreeSlot(t)
    /\ IF NotPending(get_application(store, app_id))
       THEN /\ tasks' = [tasks EXCEPT ![t] = Finished(kind, app_id, "not_pending")]
            /\ UNCHANGED store
       ELSE /\ store' = update_application_status(store, app_id, "rejected", now, dbok)
            /\ tasks' = [tasks EXCEPT ![t] = Finished(kind, app_id, "rejected")]
    /\ reply' = NoReply
    /\ UNCHANGED <<journal, now, published, notified, bulk, bg, ingested>>

\* reject_handler and reject_callback_handler: no await between the read and
\* the update, so the whole decision is one atomic section.
Reject(t, kind, user, app_id, dbok) ==
    /\ FreeSlot(t)
    /\ IF user # ADMIN_ID
       THEN /\ tasks' = [tasks EXCEPT ![t] = Finished(kind, app_id, "no_permission")]
            /\ UNCHANGED store
       ELSE IF NotPending(get_application(store, app_id))
       THEN /\ tasks' = [tasks EXCEPT ![t] = Finished(kind, app_id, "not_pending")]
            /\ UNCHANGED store
       ELSE /\ store' = update_application_status(store, app_id, "rejected", now, dbok)
            /\ tasks' = [tasks EXCEPT ![t] = Finished(kind, app_id, "rejected")]
    /\ reply' = NoReply
    /\ UNCHANGED <<journal, now, published, notified, bulk, bg, ingested>>

reject_handler(t, user, app_id, dbok) == Reject(t, "reject_handler", user, app_id, dbok)

reject_callback_handler(t, user, app_id, dbok) == Reject(t, "reject_callback_handler", user, app_id, dbok)

\* a handler that has ended leaves nothing behind: its slot serves the next
\* update
TaskEnds(t) ==
    /\ tasks[t].pc = "done"
    /\ tasks' = [tasks EXCEPT ![t] = IdleTask]
    /\ reply' = NoReply
    /\ UNCHANGED <<store, journal, now, published, notified, bulk, bg, ingested>>

\* ------------------------------------------------------------------- bulk
BulkActions == {"approve_students", "approve_startups", "reject_old"}

BulkForm(action) == IF action = "approve_students" THEN Student ELSE Startup

\* the rows of get_pending_applications, in the order q
PendingSnapshot(s, q) ==
    [k \in 1..Len(q) |-> [id |-> q[k], form_name |-> s[q[k]].form_name,
                          data |-> json_loads(s[q[k]].data), created_at |-> s[q[k]].created_at]]

\* the first index from i on whose app has the form name, Len + 1 if none
RECURSIVE NextMatch(_, _, _)
NextMatch(apps, i, form) ==
    IF i > Len(apps) THEN i
    ELSE IF apps[i].form_name = form THEN i
    ELSE NextMatch(apps, i + 1, form)

\* mutant: a record created at the cutoff instant is rejected too
RECURSIVE RejectOld_through_cutoff(_, _, _, _, _, _)
RejectOld_through_cutoff(s, apps, k, cutoff_date, t, dbok) ==
    IF k > Len(apps) THEN [store |-> s, processed_count |-> 0]
    ELSE IF apps[k].created_at <= cutoff_date
         THEN LET rest == RejectOld_through_cutoff(
                              update_application_status(s, apps[k].id, "rejected", t, dbok),
                              apps, k + 1, cutoff_date, t, dbok)
              IN [rest EXCEPT !.processed_count = @ + 1]
         ELSE RejectOld_through_cutoff(s, apps, k + 1, cutoff_date, t, dbok)

\* the reject_old loop from index k on: [store, count] after it
RECURSIVE RejectOld(_, _, _, _, _, _)
RejectOld(s, apps, k, cutoff_date, t, dbok) ==
    IF k > Len(apps) THEN [store |-> s, processed_count |-> 0]
    ELSE IF apps[k].created_at < cutoff_date
         THEN LET rest == RejectOld(update_application_status(s, apps[k].id, "rejected", t, dbok),
                                    apps, k + 1, cutoff_date, t, dbok)
              IN [rest EXCEPT !.processed_count = @ + 1]
         ELSE RejectOld(s, apps, k + 1, cutoff_date, t, dbok)

\* bulk_callback_handler up to its first await inside a loop: the admin test,
\* the snapshot of the pending rows, and for reject_old the whole loop.
bulk_callback_handler(user, action, dbok) ==
    /\ bulk.pc = "idle"
    /\ IF user # ADMIN_ID
       THEN /\ bulk' = [bulk EXCEPT !.pc = "done", !.action = action, !.result = "no_permission"]
            /\ UNCHANGED store
       ELSE \E q \in get_pending_applications(store) :
             LET pending_apps == PendingSnapshot(store, q) IN
             IF action = "reject_old"
             THEN LET r == RejectOld(store, pending_apps, 1, now - BulkRejectDays, now, dbok) IN
                  /\ store' = r.store
                  /\ bulk' = [pc |-> "done", action |-> action, pending_apps |-> <<>>,
                              i |-> 0,
                              processed_count |-> r.processed_count, result |-> "completed"]
             ELSE /\ bulk' = [pc |-> "loop", action |-> action, pending_apps |-> pending_apps,
                              i |-> 1, processed_count |-> 0, result |-> "none"]
                  /\ UNCHANGED store
    /\ reply' = NoReply
    /\ UNCHANGED <<journal, now, published, notified, tasks, bg, ingested>>

\* `await bot.send_message(CHANNEL_ID, ...)` for the next app of the form:
\* delivered, or raising into the item's except branch (logged, loop goes on)
BulkPublish(ok) ==
    /\ bulk.pc = "loop"
    /\ LET k == NextMatch(bulk.pending_apps, bulk.i, BulkForm(bulk.action)) IN
       /\ k <= Len(bulk.pending_apps)
       /\ published' = IF ok THEN [published EXCEPT ![bulk.pending_apps[k].id] = @ + 1]
                       ELSE published
       /\ bulk' = IF ok THEN [bulk EXCEPT !.pc = "sent", !.i = k]
                  ELSE [bulk EXCEPT !.i = k + 1]
    /\ reply' = NoReply
    /\ UNCHANGED <<store, journal, now, notified, tasks, bg, ingested>>

\* mutant: the item is counted but its status is not written
BulkCommit_without_update(dbok) ==
    /\ bulk.pc = "sent"
    /\ bulk' = [bulk EXCEPT !.pc = "loop", !.i = @ + 1, !.processed_count = @ + 1]
    /\ reply' = NoReply
    /\ UNCHANGED <<store, journal, now, published, notified, tasks, bg, ingested>>

\* mutant: the loop does not move on to the next item after an approval
BulkCommit_same_item(dbok) ==
    /\ bulk.pc = "sent"
    /\ store' = update_application_status(store, bulk.pending_apps[bulk.i].id, "approved", now, dbok)
    /\ bulk' = [bulk EXCEPT !.pc = "loop", !.processed_count = @ + 1]
    /\ reply' = NoReply
    /\ UNCHANGED <<journal, now, published, notified, tasks, bg, ingested>>

\* resumed after the send: update_application_status(app['id'], 'approved'),
\* processed_count += 1, then `await asyncio.sleep(0.5)`
BulkCommit(dbok) ==
    /\ bulk.pc = "sent"
    /\ store' = update_application_status(store, bulk.pending_apps[bulk.i].id, "approved", now, dbok)
    /\ bulk' = [bulk EXCEPT !.pc = "loop", !.i = @ + 1, !.processed_count = @ + 1]
    /\ reply' = NoReply
    /\ UNCHANGED <<journal, now, published, notified, tasks, bg, ingested>>

\* the ids the result text names: none, it carries processed_count only
ReportedIds(b) == {}

\* the loop is exhausted: the result text with processed_count is sent
BulkFinish ==
    /\ bulk.pc = "loop"
    /\ NextMatch(bulk.pending_apps, bulk.i, BulkForm(bulk.action)) > Len(bulk.pending_apps)
    /\ bulk' = [bulk EXCEPT !.pc = "done", !.pending_apps = <<>>, !.i = 0, !.result = "completed"]
    /\ reply' = NoReply
    /\ UNCHANGED <<store, journal, now, published, notified, tasks, bg, ingested>>

\* ------------------------------------------------------------ maintenance
\* /cleanup: cleanup_old_applications(30) and the reply with deleted_count
cleanup_handler(user) ==
    /\ IF user # ADMIN_ID
       THEN /\ reply' = [op |-> "cleanup", result |-> "ignored"]
            /\ UNCHANGED store
       ELSE /\ store' = cleanup_old_applications(store, CleanupDays, now)
            /\ reply' = [op |-> "cleanup", result |-> "done",
                         deleted_count |-> Cardinality(CleanupDeleted(store, CleanupDays, now))]
    /\ UNCHANGED <<journal, now, published, notified, tasks, bulk, bg, ingested>>

\* get_application as its caller sees it: the row, or None both when there
\* is no row and when the query raised (readok = FALSE, lines 176-178)
get_application_or_none(s, app_id, readok) ==
    IF readok THEN get_application(s, app_id) ELSE NoApplication

\* the restore loop over the backup files `files`: [store, count] after it.
\* unreadable: the ids for which the get_application query raises.
RECURSIVE RestoreLoop(_, _, _, _, _, _)
RestoreLoop(s, j, files, t, dbok, unreadable) ==
    IF files = {} THEN [store |-> s, restored_count |-> 0]
    ELSE LET backup_file == CHOOSE f \in files : TRUE
             backup_data == j[backup_file]
             app_id == backup_data.id
         IN IF ~get_application_or_none(s, app_id, app_id \notin unreadable).found
            THEN LET rest == RestoreLoop(
                        save_application(s, app_id, formName(backup_data.data, "Unknown"),
                                         backup_data.data, backup_file, t, dbok),
                        j, files \ {backup_file}, t, dbok, unreadable)
                 IN [rest EXCEPT !.restored_count = @ + 1]
            ELSE RestoreLoop(s, j, files \ {backup_file}, t, dbok, unreadable)

\* /restore: no await inside the loop, so the whole restore is atomic
restore_handler(user, dbok, unreadable) ==
    /\ IF user # ADMIN_ID
       THEN /\ reply' = [op |-> "restore", result |-> "ignored"]
            /\ UNCHANGED store
       ELSE IF DOMAIN journal = {}
       THEN /\ reply' = [op |-> "restore", result |-> "no_backups"]
            /\ UNCHANGED store
       ELSE LET r == RestoreLoop(store, journal, DOMAIN journal, now, dbok, unreadable) IN
            /\ store' = r.store
            /\ reply' = [op |-> "restore", result |-> "done", restored_count |-> r.restored_count]
    /\ UNCHANGED <<journal, now, published, notified, tasks, bulk, bg, ingested>>

\* The database file is lost while the backup files survive, and the process
\* starts again: init_database creates an empty applications table.  No
\* handler or background task of the old process is left running.
StoreLost ==
    /\ store # Empty
    /\ bg = {}
    /\ \A t \in Tasks : tasks[t].pc \in {"idle", "done"}
    /\ bulk.pc \in {"idle", "done"}
    /\ store' = Empty
    /\ reply' = NoReply
    /\ UNCHANGED <<journal, now, published, notified, tasks, bulk, bg, ingested>>

\* ------------------------------------------------------------------ reads
\* status_map.get(export_type) of the export buttons: None for 'all' and for
\* every other suffix
None == "None"

ExportTypes == {"all", "approved", "rejected", "pending"}

status_map(export_type) ==
    IF export_type \in {"approved", "rejected", "pending"} THEN export_type ELSE None

\* the header line export_to_csv writes
ExportHeader == <<"ID", "Form Name", "Status", "Created At", "Approved At", "Data">>

\* one fetched row of SELECT * : the seven columns of the table in the order
\* of CREATE TABLE
ExportRow(s, x) ==
    <<x, s[x].form_name, s[x].status, s[x].created_at, s[x].approved_at, s[x].data,
      s[x].backup_file>>

\* export_to_csv(status): the header and the rows of one SELECT (no ORDER BY,
\* so the rows are a set); `if status:` adds the WHERE clause
export_to_csv(s, status) ==
    [header |-> ExportHeader,
     rows   |-> { ExportRow(s, x) : x \in { y \in DOMAIN s : status # None => s[y].status = status } }]

\* an export button: the admin test, then the file of export_to_csv(status)
\* is sent to the admin
export_callback_handler(user, export_type) ==
    /\ reply' = IF user # ADMIN_ID
                   THEN [op |-> "export", result |-> "no_permission"]
                   ELSE [op |-> "export", result |-> "done", export_type |-> export_type,
                         file |-> export_to_csv(store, status_map(export_type))]
    /\ UNCHANGED <<store, journal, now, published, notified, tasks, bulk, bg, ingested>>

\* /export: export_to_csv() without a status
export_handler(user) ==
    /\ reply' = IF user # ADMIN_ID
                   THEN [op |-> "export", result |-> "ignored"]
                   ELSE [op |-> "export", result |-> "done", export_type |-> "all",
                         file |-> export_to_csv(store, None)]
    /\ UNCHANGED <<store, journal, now, published, notified, tasks, bulk, bg, ingested>>

\* /stats: the message is built from get_statistics()
stats_handler(user) ==
    /\ reply' = IF user # ADMIN_ID
                   THEN [op |-> "stats", result |-> "ignored"]
                   ELSE [op |-> "stats", result |-> "done", stats |-> get_statistics(store)]
    /\ UNCHANGED <<store, journal, now, published, notified, tasks, bulk, bg, ingested>>

\* /pending: the list is built from get_pending_applications()
pending_handler(user) ==
    /\ \E q \in get_pending_applications(store) :
          reply' = IF user # ADMIN_ID
                      THEN [op |-> "pending", result |-> "ignored"]
                      ELSE [op |-> "pending", result |-> "done",
                            pending_apps |-> PendingSnapshot(store, q)]
    /\ UNCHANGED <<store, journal, now, published, notified, tasks, bulk, bg, ingested>>

\* the button 'Подробнее': get_application(app_id) and the details message
details_callback_handler(user, app_id) ==
    /\ reply' = IF user # ADMIN_ID
                   THEN [op |-> "details", result |-> "no_permission"]
                   ELSE [op |-> "details", result |-> "done", app_id |-> app_id,
                         application |-> get_application(store, app_id)]
    /\ UNCHANGED <<store, journal, now, published, notified, tasks, bulk, bg, ingested>>

\* GET /metrics: the counters of get_statistics() and, as oldest_pending,
\* pending_apps[0]['created_at'] (None without pending rows)
metrics ==
    /\ \E q \in get_pending_applications(store) :
          LET pending_apps == PendingSnapshot(store, q) IN
          reply' = [op |-> "metrics", stats |-> get_statistics(store),
                    oldest_pending |-> IF pending_apps # <<>> THEN pending_apps[1].created_at
                                       ELSE NULL]
    /\ UNCHANGED <<store, journal, now, published, notified, tasks, bulk, bg, ingested>>

\* ---------------------------------------------------------- specification
\* U: the senders of chat updates; P: the webhook bodies; Db: the outcomes of
\* a database write (TRUE = committed); Net: the outcomes of a Telegram call
\* (TRUE = delivered); Rd: the sets of ids whose read raises during a restore.
Clock(I) == \E t \in I : Tick(t)

Ingestion(P, Db, Net) ==
    \/ \E data \in P, app_id \in Ids, dbok \in Db : webhook_handler(data, app_id, dbok)
    \/ \E job \in bg, ok \in Db : BackgroundBackup(job, ok)
    \/ \E job \in bg, ok \in Net : send_notification_to_admin(job, ok)

TestIngestion(Db, Net) ==
    \E app_id \in Ids, dbok \in Db, ok \in Net : test_webhook(app_id, dbok, ok)

\* a decision handler entered, up to its first await (or its end)
DecisionStarts(T, U, Db) ==
    \/ \E t \in T, user \in U, app_id \in Ids : approve_handler(t, user, app_id)
    \/ \E t \in T, user \in U, app_id \in Ids : approve_callback_handler(t, user, app_id)
    \/ \E t \in T, user \in U, app_id \in Ids, dbok \in Db : reject_handler(t, user, app_id, dbok)
    \/ \E t \in T, user \in U, app_id \in Ids, dbok \in Db : reject_callback_handler(t, user, app_id, dbok)

\* a decision handler resumed from an await
DecisionSteps(T, Db, Net) ==
    \/ \E t \in T, ok \in Net : ApprovePublish(t, ok)
    \/ \E t \in T, dbok \in Db : ApproveCommit(t, dbok)

Decisions(T, U, Db, Net) == DecisionStarts(T, U, Db) \/ DecisionSteps(T, Db, Net)

\* the bulk handler entered, up to its first await inside a loop (or its end)
BulkStarts(U, A, Db) ==
    \E user \in U, action \in A, dbok \in Db : bulk_callback_handler(user, action, dbok)

\* the bulk approval loop resumed from an await
BulkSteps(Db, Net) ==
    \/ \E ok \in Net : BulkPublish(ok)
    \/ \E dbok \in Db : BulkCommit(dbok)
    \/ BulkFinish

BulkOps(U, A, Db, Net) == BulkStarts(U, A, Db) \/ BulkSteps(Db, Net)

Maintenance(U, Db, Rd) ==
    \/ \E user \in U : cleanup_handler(user)
    \/ \E user \in U, dbok \in Db, unreadable \in Rd : restore_handler(user, dbok, unreadable)

\* the handlers that export the table
Exports(U, X) ==
    \/ \E user \in U, export_type \in X : export_callback_handler(user, export_type)
    \/ \E user \in U : export_handler(user)

\* the handlers that show the counters or one application
Lookups(U) ==
    \/ \E user \in U : stats_handler(user)
    \/ \E user \in U, app_id \in Ids : details_callback_handler(user, app_id)

\* the handler and the endpoint that list the pending applications
Listings(U) ==
    \/ \E user \in U : pending_handler(user)
    \/ metrics

Reads(U, X) == Exports(U, X) \/ Lookups(U) \/ Listings(U)

StudentPayload == MkPayload("FORM_RESPONSE", "fields", Student)

NoFormPayload == MkPayload("FORM_RESPONSE", "fields", "absent")

StartupPayload == MkPayload("FORM_RESPONSE", "fields", Startup)

\* the moderator's single decisions racing each other and ingestion
DecideNext ==
    \/ Ingestion({StudentPayload}, {TRUE}, {TRUE})
    \/ Decisions(Tasks, {ADMIN_ID}, {TRUE}, BOOLEAN)

DecideSpec == Init /\ [][DecideNext]_vars

\* the moderator's decisions one after the other: a handler is entered only
\* when no other handler is between its entry and its end
NoneInFlight == \A t \in Tasks : tasks[t].pc \in {"idle", "done"}

SeqNext ==
    \/ Ingestion({StudentPayload}, {TRUE}, {TRUE})
    \/ (NoneInFlight /\ DecisionStarts(Tasks, {ADMIN_ID}, {TRUE}))
    \/ DecisionSteps(Tasks, {TRUE}, BOOLEAN)

SeqSpec == Init /\ [][SeqNext]_vars

\* approvals: a single approve or reject decision racing a bulk operation
\* and ingestion
ApprovalNext ==
    \/ Ingestion({StudentPayload, NoFormPayload}, {TRUE}, {TRUE})
    \/ Decisions({1}, {ADMIN_ID}, {TRUE}, BOOLEAN)
    \/ BulkOps({ADMIN_ID}, {"approve_students", "reject_old"}, {TRUE}, BOOLEAN)

ApprovalSpec == Init /\ [][ApprovalNext]_vars

\* the two ingestion endpoints with every webhook body, with database and
\* file writes and Telegram calls that may fail
IngestNext ==
    \/ Ingestion(Payloads, BOOLEAN, BOOLEAN)
    \/ TestIngestion(BOOLEAN, BOOLEAN)

IngestSpec == Init /\ [][IngestNext]_vars

\* the webhook with well-formed bodies and writes that succeed
UpsertNext == Ingestion(ValidPayloads, {TRUE}, BOOLEAN)

UpsertSpec == Init /\ [][UpsertNext]_vars

\* retention: ingestion, single decisions, /cleanup and /restore, with the
\* clock at the retention cutoff and past it
MaintNext ==
    \/ Clock({CleanupDays, CleanupDays + 1})
    \/ Ingestion({StudentPayload}, {TRUE}, {TRUE})
    \/ Decisions({1}, {ADMIN_ID}, {TRUE}, BOOLEAN)
    \/ Maintenance({ADMIN_ID}, {TRUE}, {{}})

MaintSpec == Init /\ [][MaintNext]_vars

\* a bulk approval of either category on its own, racing only ingestion,
\* with publishes that may fail
BulkNext ==
    \/ Ingestion({StudentPayload, StartupPayload}, {TRUE}, {TRUE})
    \/ BulkOps({ADMIN_ID}, {"approve_students", "approve_startups"}, {TRUE}, BOOLEAN)

BulkSpec == Init /\ [][BulkNext]_vars

\* the bulk rejection of old submissions, with the clock at the age limit
\* and past it, next to ingestion and a single decision
RejectNext ==
    \/ Clock({BulkRejectDays, BulkRejectDays + 1})
    \/ Ingestion({StudentPayload}, {TRUE}, {TRUE})
    \/ Decisions({1}, {ADMIN_ID}, {TRUE}, {TRUE})
    \/ BulkStarts({ADMIN_ID}, {"reject_old"}, {TRUE})

RejectSpec == Init /\ [][RejectNext]_vars

\* recovery: ingestion, a single decision, cleanup, the loss of the database
\* file, and restores during which reads of some ids may raise
RestoreNext ==
    \/ Clock({CleanupDays + 1})
    \/ Ingestion({StudentPayload, NoFormPayload}, {TRUE}, {TRUE})
    \/ Decisions({1}, {ADMIN_ID}, {TRUE}, {TRUE})
    \/ Maintenance({ADMIN_ID}, {TRUE}, {{}, Ids})
    \/ StoreLost

RestoreSpec == Init /\ [][RestoreNext]_vars

\* every read next to ingestion and a single decision
ReadNext ==
    \/ Ingestion({StudentPayload}, {TRUE}, {TRUE})
    \/ Decisions({1}, {ADMIN_ID}, {TRUE}, {TRUE})
    \/ Reads({ADMIN_ID}, ExportTypes)

ReadSpec == Init /\ [][ReadNext]_vars

\* the listings of the pending applications, with the clock moving between
\* two ingestions and a single decision
ListNext ==
    \/ Clock({BulkRejectDays + 1})
    \/ Ingestion({StudentPayload}, {TRUE}, {TRUE})
    \/ Decisions({1}, {ADMIN_ID}, {TRUE}, {TRUE})
    \/ Listings({ADMIN_ID})

ListSpec == Init /\ [][ListNext]_vars

\* every kind of decision: a single approve or reject, a bulk approval and
\* the bulk rejection of old submissions, with the clock past the age limit
DecisionKindsNext ==
    \/ Clock({BulkRejectDays + 1})
    \/ Ingestion({StudentPayload}, {TRUE}, {TRUE})
    \/ Decisions({1}, {ADMIN_ID}, {TRUE}, {TRUE})
    \/ BulkOps({ADMIN_ID}, {"approve_students", "reject_old"}, {TRUE}, {TRUE})

DecisionKindsSpec == Init /\ [][DecisionKindsNext]_vars

\* chat updates from another user than the admin: decisions, the bulk
\* rejection, cleanup, restore and export, next to ingestion, the admin's
\* single decisions and the loss of the database file
AuthNext ==
    \/ Clock({CleanupDays + 1})
    \/ Ingestion({StudentPayload}, {TRUE}, {TRUE})
    \/ Decisions({1}, Users, {TRUE}, {TRUE})
    \/ BulkStarts(Users \ {ADMIN_ID}, {"reject_old"}, {TRUE})
    \/ Maintenance(Users \ {ADMIN_ID}, {TRUE}, {{}})
    \/ Exports(Users \ {ADMIN_ID}, {"all"})
    \/ StoreLost

AuthSpec == Init /\ [][AuthNext]_vars

\* a bulk approval while ingestions arrive and /reject commands keep
\* arriving without end
BulkLiveNext ==
    \/ Ingestion({StudentPayload}, {TRUE}, {TRUE})
    \/ \E app_id \in Ids : reject_handler(1, ADMIN_ID, app_id, TRUE)
    \/ TaskEnds(1)
    \/ BulkOps({ADMIN_ID}, {"approve_students"}, {TRUE}, BOOLEAN)

\* the event loop resumes the bulk handler whenever the call it awaits (the
\* publish, the sleep) has returned
BulkLiveSpec ==
    Init /\ [][BulkLiveNext]_vars /\ WF_vars(BulkSteps({TRUE}, BOOLEAN))

\* every operation of the engine, with one single-decision handler
Next ==
    \/ Clock({CleanupDays + 1})
    \/ Ingestion({StudentPayload, NoFormPayload}, {TRUE}, {TRUE})
    \/ Decisions({1}, {ADMIN_ID}, {TRUE}, BOOLEAN)
    \/ BulkOps({ADMIN_ID}, {"approve_students", "reject_old"}, {TRUE}, BOOLEAN)
    \/ Maintenance({ADMIN_ID}, {TRUE}, {{}})

Spec == Init /\ [][Next]_vars

\* ================================================================ claims
IsApprove(t) == tasks[t].kind \in {"approve_handler", "approve_callback_handler"}

IsReject(t) == tasks[t].kind \in {"reject_handler", "reject_callback_handler"}

Status(id) == IF id \in DOMAIN store THEN store[id].status ELSE "absent"

\* the single submission of the run has been ingested once (no id was reused)
OneSubmission == ingested = 1

\* C1: an approve and a reject decision racing on the same pending id never
\* both succeed: one changes the status, the other reports AlreadyDecided.
C1_ApproveRejectRaceOneWinner ==
    OneSubmission =>
        \A t, u \in Tasks :
            (IsApprove(t) /\ IsReject(u) /\ tasks[t].app_id = tasks[u].app_id)
                => ~(tasks[t].result = "approved" /\ tasks[u].result = "rejected")

\* C2: two approve decisions racing on the same pending id: at most one wins
\* and the submission is published to the channel at most once.
C2_ApproveApproveRaceOnePublish ==
    OneSubmission =>
        /\ \A id \in Ids : published[id] <= 1
        /\ \A t, u \in Tasks :
            (t # u /\ IsApprove(t) /\ IsApprove(u) /\ tasks[t].app_id = tasks[u].app_id)
                => ~(tasks[t].result = "approved" /\ tasks[u].result = "approved")

\* C3: transition closure: no step of a decision handler changes the status
\* or the decision timestamp of a record that is approved or rejected.
C3_TransitionClosure ==
    [][ tasks' # tasks =>
            \A id \in DOMAIN store :
                store[id].status # "pending" =>
                    /\ id \in DOMAIN store'
                    /\ store'[id].status = store[id].status
                    /\ store'[id].approved_at = store[id].approved_at ]_vars

\* C4: in every step, a stored record's status changes only from pending to
\* approved or from pending to rejected.
C4_OnlyPendingChanges ==
    [][ \A id \in (DOMAIN store) \cap (DOMAIN store') :
            store'[id].status # store[id].status =>
                /\ store[id].status = "pending"
                /\ store'[id].status \in {"approved", "rejected"} ]_vars

PublishedUncommitted ==
    { tasks[t].app_id : t \in { u \in Tasks : tasks[u].pc = "sent" } }
        \cup (IF bulk.pc = "sent" THEN {bulk.pending_apps[bulk.i].id} ELSE {})

NoIdReused == ingested = Cardinality(DOMAIN store)

\* C8: decisions run one after the other: a successful approve leaves the
\* record approved with its timestamp set and one publish made; every later
\* approve of the id reports not-pending and publishes nothing more.
C8_SequentialApprovePublishesOnce ==
    NoIdReused =>
        /\ \A id \in Ids : published[id] <= 1
        /\ \A t \in Tasks :
            (IsApprove(t) /\ tasks[t].result = "approved") =>
                /\ Status(tasks[t].app_id) = "approved"
                /\ store[tasks[t].app_id].approved_at # NULL
                /\ published[tasks[t].app_id] = 1
                /\ \A u \in Tasks :
                    (u > t /\ IsApprove(u) /\ tasks[u].app_id = tasks[t].app_id)
                        => (tasks[u].pc = "done" /\ tasks[u].result = "not_pending")

C8_Witness ==
    /\ NoIdReused
    /\ \E t, u \in Tasks :
        /\ t < u /\ IsApprove(t) /\ IsApprove(u) /\ tasks[t].app_id = tasks[u].app_id
        /\ tasks[t].result = "approved" /\ tasks[u].result = "not_pending"
        /\ published[tasks[t].app_id] = 1

\* C9: a decision on an id that is not in the Store ends at once with the
\* not-found reply and changes no Store record, no Journal entry and makes
\* no publish.
C9_UnknownIdNotFound ==
    [][ \A t \in Tasks :
            (tasks[t].pc = "idle" /\ tasks'[t].pc # "idle" /\ tasks'[t].app_id \notin DOMAIN store)
                => /\ tasks'[t].pc = "done"
                   /\ tasks'[t].result = "not_pending"
                   /\ store' = store
                   /\ journal' = journal
                   /\ published' = published ]_vars

C9_Witness ==
    \E t, u \in Tasks :
        /\ IsApprove(t) /\ IsReject(u)
        /\ tasks[t].result = "not_pending" /\ tasks[t].app_id \notin DOMAIN store
        /\ tasks[u].result = "not_pending" /\ tasks[u].app_id \notin DOMAIN store

\* C10: the Store's status update leaves the Store unchanged when the
\* record's current status is not pending (InvalidTransition).
C10_UpdateOnlyPending ==
    \A id \in DOMAIN store : \A st \in {"approved", "rejected"} :
        store[id].status # "pending"
            => update_application_status(store, id, st, now, TRUE) = store

\* ------------------------------------------------------- ingestion claims
\* a body the webhook must refuse: a required key is missing, the event type
\* is not FORM_RESPONSE, or data carries no fields list
Malformed(data) ==
    \/ data.eventType = "absent"
    \/ data.data = "absent"
    \/ data.eventType # "FORM_RESPONSE"
    \/ data.data # "fields"

\* C11: the webhook answers a malformed body with an error (400, or 500 when
\* reading the form name raises) and creates no
\* Store record, no Journal entry, no background work and no notification.
C11_MalformedPayloadRejected ==
    [][ (reply'.op = "webhook" /\ ingested' = ingested + 1 /\ Malformed(reply'.request))
            => /\ reply'.code \in {400, 500}
               /\ reply'.status = "error"
               /\ store' = store
               /\ journal' = journal
               /\ bg' = bg
               /\ notified' = notified ]_vars

C11_Witness ==
    /\ reply.op = "webhook" /\ reply.status = "error" /\ Malformed(reply.request)
    /\ ingested = MaxIngest
    /\ Cardinality(DOMAIN store) = MaxIngest - 1

\* the last step was an ingestion call that reported success
IngestSucceeded == reply.op \in {"webhook", "test_webhook"} /\ reply.status = "success"

\* C12: an ingestion call that reports success has its Store record, pending
\* and of the payload's category, and, once the backup work of the call has
\* run, its Journal entry under the same id; on every ingestion path.
C12_SuccessOneRecordOneEntry ==
    /\ IngestSucceeded =>
          LET id == reply.application_id IN
          /\ id \in DOMAIN store
          /\ store[id].status = "pending"
          /\ store[id].form_name = formName(reply.request, "")
          /\ ((\A job \in bg : job.app_id # id) => id \in DOMAIN journal)
    /\ \A job \in bg : job.pc = "notify" => job.app_id \in DOMAIN journal

\* C13: the Journal entry is written before the Store record: in every
\* state every Store record has a Journal entry with the same id.
C13_JournalBeforeStore ==
    \A id \in DOMAIN store : id \in DOMAIN journal

\* C14: a failed Store write is reported as a fault: no success response
\* for an id without a Store record, and no notification for such an id.
C14_StoreFailureIsFault ==
    /\ IngestSucceeded => reply.application_id \in DOMAIN store
    /\ \A id \in notified : id \in DOMAIN store

\* C15: an ingestion under an id leaves one Store record for the id, holding
\* the payload of this (the later) ingestion, and changes no other record;
\* there is never more than one Store record or Journal entry per ingested
\* id, and exactly one of each once the background work has run.
C15_ReingestKeepsOneRecord ==
    /\ [][ (reply'.op = "webhook" /\ ingested' = ingested + 1 /\ reply'.status = "success")
              => LET id == reply'.application_id IN
                 /\ DOMAIN store' = (DOMAIN store) \cup {id}
                 /\ store'[id].data = json_dumps(reply'.request)
                 /\ store'[id].form_name = formName(reply'.request, "")
                 /\ \A x \in (DOMAIN store) \ {id} : store'[x] = store[x] ]_vars
    /\ [](/\ Cardinality(DOMAIN store) <= ingested
          /\ Cardinality(DOMAIN journal) <= Cardinality(DOMAIN store)
          /\ (bg = {} => DOMAIN journal = DOMAIN store))

C15_Witness ==
    /\ IngestSucceeded
    /\ ingested = 2
    /\ DOMAIN store = {reply.application_id}
    /\ DOMAIN journal = {reply.application_id}
    /\ journal[reply.application_id].data # reply.request
    /\ store[reply.application_id].data = json_dumps(reply.request)

\* ------------------------------------------------------ statistics claims
\* C16: get_statistics returns total_received = pending + total_approved +
\* total_rejected, and each number is the count of the Store records of that
\* status (the total: of all records).
C16_StatisticsConsistent ==
    LET stats == get_statistics(store) IN
    /\ stats.total_received = stats.pending + stats.total_approved + stats.total_rejected
    /\ stats.total_received = Cardinality(DOMAIN store)
    /\ stats.pending = Cardinality({ id \in DOMAIN store : Status(id) = "pending" })
    /\ stats.total_approved = Cardinality({ id \in DOMAIN store : Status(id) = "approved" })
    /\ stats.total_rejected = Cardinality({ id \in DOMAIN store : Status(id) = "rejected" })

C16_Witness ==
    /\ get_statistics(store).pending = 1
    /\ get_statistics(store).total_received = 1
    /\ reply.op = "cleanup" /\ reply.result = "done" /\ reply.deleted_count = 1

\* C17: the statistics carry a count for every category in the Store, so the
\* per-category counts add up to the number of records.
C17_CategoryCountsCoverStore ==
    LET stats == get_statistics(store) IN
    stats.startup_forms + stats.student_forms = stats.total_received

\* ------------------------------------------------------- retention claims
\* C18: a cleanup removes no pending record, whatever its age: each record
\* pending before the cleanup is in the Store, unchanged, after it.
C18_CleanupKeepsPending ==
    [][ reply'.op = "cleanup"
            => \A id \in PendingIds(store) :
                   id \in DOMAIN store' /\ store'[id] = store[id] ]_vars

C18_Witness ==
    /\ reply.op = "cleanup" /\ reply.result = "done" /\ reply.deleted_count > 0
    /\ \E id \in PendingIds(store) : store[id].created_at < now - CleanupDays

\* C19: a cleanup deletes exactly the approved and rejected records created
\* before now minus the retention window, answers with their number, and
\* leaves every other record and the Journal as they were.
C19_CleanupDeletesOldDecided ==
    [][ (reply'.op = "cleanup" /\ reply'.result = "done")
            => LET old == { id \in DOMAIN store :
                                /\ store[id].status \in {"approved", "rejected"}
                                /\ store[id].created_at < now - CleanupDays }
               IN /\ DOMAIN store' = (DOMAIN store) \ old
                  /\ \A id \in DOMAIN store' : store'[id] = store[id]
                  /\ reply'.deleted_count = Cardinality(old)
                  /\ journal' = journal ]_vars

C19_Witness ==
    /\ reply.op = "cleanup" /\ reply.result = "done" /\ reply.deleted_count = 1
    /\ Cardinality(DOMAIN store) = 1
    /\ Cardinality(DOMAIN journal) = 2

\* C20: right after a restore, a second restore (at the same or a later
\* instant) leaves the Store as it is and reports zero restored records.
C20_RestoreIdempotent ==
    (reply.op = "restore" /\ reply.result = "done")
        => \A t \in now..(CleanupDays + 1) :
               RestoreLoop(store, journal, DOMAIN journal, t, TRUE, {})
                   = [store |-> store, restored_count |-> 0]

C20_Witness ==
    /\ reply.op = "restore" /\ reply.result = "done" /\ reply.restored_count > 0
    /\ Cardinality(DOMAIN store) = 2

\* --------------------------------------------------------- restore claims
\* C21: a restore leaves every record already in the Store untouched:
\* status, approved_at, created_at, category and payload are the same after
\* it, also for decided records and also when reading the record fails.
C21_RestoreKeepsExisting ==
    [][ reply'.op = "restore"
            => \A id \in DOMAIN store :
                   id \in DOMAIN store' /\ store'[id] = store[id] ]_vars

\* C22: a restore run on an empty Store brings back every id of the Journal
\* as a pending record with the payload recorded at ingestion and the
\* category ingestion derives from it ("" when the payload names none), and
\* answers with the number of records it rebuilt.
C22_RestoreAfterLoss ==
    [][ (reply'.op = "restore" /\ reply'.result = "done" /\ store = Empty)
            => /\ \A id \in DOMAIN journal :
                      /\ id \in DOMAIN store'
                      /\ store'[id].status = "pending"
                      /\ store'[id].data = json_dumps(journal[id].data)
                      /\ store'[id].form_name = formName(journal[id].data, "")
               /\ reply'.restored_count = Cardinality(DOMAIN store') ]_vars

\* ------------------------------------------------------------ bulk claims
\* the category a bulk approval is for
BulkCategory(action) ==
    IF action = "approve_students" THEN Student
    ELSE IF action = "approve_startups" THEN Startup
    ELSE "none"

\* the ids of the snapshot that are of the bulk approval's category
BatchIds(b) ==
    { b.pending_apps[k].id :
        k \in { n \in 1..Len(b.pending_apps) :
                    b.pending_apps[n].form_name = BulkCategory(b.action) } }

\* the step in which a bulk approval sends its result
BulkEnds == bulk.pc = "loop" /\ bulk'.pc = "done"

\* C23: a bulk approval of a category in which no publish failed has, at its
\* end, made every record that was pending and of the category approved,
\* reports their number, and its writes touch no record of another category.
C23_BulkApproveCategory ==
    [][ NoIdReused =>
          /\ (BulkEnds /\ \A id \in BatchIds(bulk) : published[id] > 0)
                => /\ \A id \in BatchIds(bulk) : Status(id) = "approved"
                   /\ bulk'.processed_count = Cardinality(BatchIds(bulk))
                   /\ \A id \in DOMAIN store :
                          store[id].form_name # BulkCategory(bulk.action)
                              => store[id].status = "pending"
          /\ (bulk' # bulk /\ bulk'.action # "reject_old")
                => \A id \in DOMAIN store :
                       store'[id] # store[id]
                           => /\ store[id].form_name = BulkCategory(bulk.action)
                              /\ store[id].status = "pending"
                              /\ store'[id].status = "approved" ]_vars

C23_Witness ==
    /\ NoIdReused
    /\ bulk.pc = "done" /\ bulk.action = "approve_startups" /\ bulk.processed_count = 1
    /\ get_statistics(store).total_approved = 1
    /\ get_statistics(store).pending = 1
    /\ get_statistics(store).student_forms = 1

\* C24: a failing item does not abort a bulk approval: the later items are
\* still processed, the count is the number of records made approved, and
\* every item of the batch that was not made approved is named in the result.
C24_BulkFailuresReturned ==
    [][ (NoIdReused /\ BulkEnds)
            => /\ \A id \in BatchIds(bulk) : published[id] > 0 => Status(id) = "approved"
               /\ bulk'.processed_count
                      = Cardinality({ id \in BatchIds(bulk) : Status(id) = "approved" })
               /\ \A id \in BatchIds(bulk) :
                      Status(id) # "approved" => id \in ReportedIds(bulk') ]_vars

\* C25: the bulk rejection makes rejected exactly the pending records created
\* before now minus the age limit, reports their number, leaves every newer
\* pending record and every decided record as it was, and publishes nothing.
C25_BulkRejectOld ==
    [][ (bulk.pc = "idle" /\ bulk'.pc = "done" /\ bulk'.action = "reject_old"
            /\ bulk'.result = "completed")
            => LET old == { id \in DOMAIN store :
                                /\ store[id].status = "pending"
                                /\ store[id].created_at < now - BulkRejectDays }
               IN /\ DOMAIN store' = DOMAIN store
                  /\ \A id \in old :
                         store'[id] = [store[id] EXCEPT !.status = "rejected"]
                  /\ \A id \in (DOMAIN store) \ old : store'[id] = store[id]
                  /\ bulk'.processed_count = Cardinality(old)
                  /\ published' = published ]_vars

C25_Witness ==
    /\ bulk.pc = "done" /\ bulk.action = "reject_old" /\ bulk.processed_count = 1
    /\ \E r, p \in DOMAIN store :
          /\ store[r].status = "rejected" /\ store[r].created_at < now - BulkRejectDays
          /\ store[p].status = "pending" /\ store[p].created_at >= now - BulkRejectDays

\* C26: a bulk operation racing a single decision on the same id is safe:
\* the id's status changes once only (from pending), it is published at
\* most once, and a published id is not left rejected.
C26_BulkRaceSafe ==
    [][ (NoIdReused /\ NoIdReused')
            => \A id \in DOMAIN store :
                   /\ published'[id] # published[id] => published[id] = 0
                   /\ store'[id].status # store[id].status => store[id].status = "pending"
                   /\ published'[id] > 0 => store'[id].status # "rejected" ]_vars

\* C27: bulk operations are idempotent per item: an item that is no longer
\* pending when the bulk approval reaches it is skipped, with no publish and
\* no status change.
C27_BulkSkipsDecidedItems ==
    [][ NoIdReused =>
          /\ (bulk.pc = "loop" /\ bulk'.pc = "sent")
                => Status(bulk.pending_apps[bulk'.i].id) = "pending"
          /\ (bulk.pc = "sent" /\ bulk'.pc = "loop")
                => Status(bulk.pending_apps[bulk.i].id) = "pending" ]_vars

\* ---------------------------------------------- lifetime and fault claims
\* C28: cleanup never deletes a record from under a decision in flight:
\* a decision that reports success ends with its record in the Store in
\* the decided status.
C28_DecisionFindsRecord ==
    [][ \A t \in Tasks :
            (tasks[t].pc # "done" /\ tasks'[t].pc = "done"
                /\ tasks'[t].result \in {"approved", "rejected"})
                => Status(tasks[t].app_id)' = tasks'[t].result ]_vars

\* C29: an id is created once and decided at most once: a record is pending
\* after a step only if it was pending before it or its id is new; an id
\* that was decided never has a pending record again.  Stated for the steps
\* other than ingestion (an ingestion under a colliding id is C4's case).
C29_PendingOnlyWhenNew ==
    [][ ingested' = ingested
            => \A id \in DOMAIN store' :
                   store'[id].status = "pending"
                       => \/ id \in DOMAIN store /\ store[id].status = "pending"
                          \/ id \notin UsedIds ]_vars

ExportSelected(export_type) ==
    { x \in DOMAIN store : export_type # "all" => store[x].status = export_type }

\* C31: an export with a status filter returns exactly the records of that
\* status, an export without filter returns every record, and each row
\* carries the six columns id, category, status, created_at, decided_at,
\* payload in that order (the six the header names).
C31_ExportRowsSixColumns ==
    [][ (reply'.op = "export" /\ reply'.result = "done")
            => /\ reply'.file.rows =
                     { <<x, store[x].form_name, store[x].status, store[x].created_at,
                         store[x].approved_at, store[x].data>> :
                       x \in ExportSelected(reply'.export_type) }
               /\ \A row \in reply'.file.rows : Len(row) = Len(reply'.file.header) ]_vars

\* the records a step of a decision handler is aimed at: the id a single
\* decision names, the snapshot item a bulk approval has just published, the
\* pending records for the bulk rejection
DecisionTargets ==
    { tasks'[t].app_id : t \in { u \in Tasks : tasks'[u] # tasks[u] } }
        \cup (IF bulk' = bulk THEN {}
              ELSE IF bulk'.action = "reject_old" THEN PendingIds(store)
              ELSE IF bulk.pc = "sent" THEN {bulk.pending_apps[bulk.i].id}
              ELSE {})

\* C32: a decision (single or bulk, approve or reject) changes only the
\* status and approved_at of the record it targets: the ids present, every
\* record's form_name, created_at, data and backup_file, every record that
\* is not targeted, and every backup file are as before the step.
C32_DecisionFrame ==
    [][ (tasks' # tasks \/ bulk' # bulk)
            => /\ journal' = journal
               /\ DOMAIN store' = DOMAIN store
               /\ \A x \in DOMAIN store :
                     /\ store'[x].form_name = store[x].form_name
                     /\ store'[x].created_at = store[x].created_at
                     /\ store'[x].data = store[x].data
                     /\ store'[x].backup_file = store[x].backup_file
                     /\ x \notin DecisionTargets => store'[x] = store[x]
               /\ bulk'.action # "reject_old"
                     => Cardinality({ x \in DOMAIN store : store'[x] # store[x] }) <= 1 ]_vars

\* a single decision and a bulk operation have each changed a record, after
\* the clock has moved on from the ingestion
C32_Witness ==
    /\ tasks[1].result \in {"approved", "rejected"}
    /\ bulk.pc = "done"
    /\ bulk.processed_count >= 1
    /\ now > 0
    /\ \A x \in Ids : x \in DOMAIN store /\ store[x].status # "pending" /\ store[x].created_at < now
    /\ \A x \in Ids : x \in DOMAIN journal

ReadOps == {"stats", "pending", "details", "export", "metrics"}

\* C33: the reads (get_statistics, get_pending_applications,
\* get_application, export_to_csv, through the handlers that call them)
\* leave every Store record and every backup file as they were, and the
\* counters get_statistics returns are those of the records present at the
\* time of the call.
C33_ReadsChangeNothing ==
    [][ reply'.op \in ReadOps
            => /\ store' = store
               /\ journal' = journal
               /\ (reply'.op = "stats" /\ reply'.result = "done")
                     => /\ reply'.stats.total_received = Cardinality(DOMAIN store)
                        /\ \A st \in {"approved", "rejected"} :
                              reply'.stats["total_" \o st] =
                                  Cardinality({ x \in DOMAIN store : store[x].status = st })
                        /\ reply'.stats.pending =
                              Cardinality({ x \in DOMAIN store : store[x].status = "pending" })
                        /\ reply'.stats.student_forms =
                              Cardinality({ x \in DOMAIN store : store[x].form_name = Student }) ]_vars

\* /stats has answered after a decision and with a submission still pending
C33_Witness ==
    /\ reply.op = "stats"
    /\ reply.stats.total_received = MaxIngest
    /\ reply.stats.pending >= 1
    /\ reply.stats.total_approved + reply.stats.total_rejected >= 1
    /\ DOMAIN journal = DOMAIN store

\* C34: get_pending_applications returns exactly the pending records, each
\* once, from the newest created_at to the oldest, and the oldest_pending
\* field of /metrics is the least created_at among the pending records.
C34_PendingListAndOldest ==
    [][ /\ (reply'.op = "pending" /\ reply'.result = "done")
              => LET apps == reply'.pending_apps IN
                 /\ { apps[k].id : k \in DOMAIN apps } =
                        { x \in DOMAIN store : store[x].status = "pending" }
                 /\ \A i, j \in DOMAIN apps : i # j => apps[i].id # apps[j].id
                 /\ \A i, j \in DOMAIN apps : i < j => apps[i].created_at >= apps[j].created_at
                 /\ \A k \in DOMAIN apps : apps[k].created_at = store[apps[k].id].created_at
        /\ (reply'.op = "metrics" /\ \E x \in DOMAIN store : store[x].status = "pending")
              => \A x \in DOMAIN store :
                     store[x].status = "pending" => reply'.oldest_pending <= store[x].created_at ]_vars

\* C35: a record that /restore reconstructs keeps the ingestion timestamp of
\* its submission: its created_at is the timestamp of its backup file.
C35_RestoreKeepsCreatedAt ==
    [][ (reply'.op = "restore" /\ reply'.result = "done")
            => \A id \in (DOMAIN store') \ (DOMAIN store) :
                   store'[id].created_at = journal[id].timestamp ]_vars

\* a step of a handler entered by a user who is not the admin
OtherUserStep ==
    \/ DecisionStarts(Tasks, Users \ {ADMIN_ID}, {TRUE})
    \/ BulkStarts(Users \ {ADMIN_ID}, BulkActions, {TRUE})
    \/ Maintenance(Users \ {ADMIN_ID}, {TRUE}, {{}})
    \/ Exports(Users \ {ADMIN_ID}, ExportTypes)

\* C36: a chat command or button press of a user other than the admin
\* changes no Store record and no backup file, publishes nothing, leaves no
\* handler on its way to a publish, and hands out no export.
C36_OnlyAdminActs ==
    [][ OtherUserStep
            => /\ store' = store
               /\ journal' = journal
               /\ published' = published
               /\ \A t \in Tasks : tasks'[t] # tasks[t] => tasks'[t].pc = "done"
               /\ bulk' # bulk => bulk'.pc = "done" /\ bulk'.processed_count = 0
               /\ reply'.op = "export" => reply'.result # "done" ]_vars

\* another user has asked for a decision on a pending record, for a bulk
\* operation and for a cleanup or a restore, with a pending record older
\* than every age limit in the Store
C36_Witness ==
    /\ tasks[1].result = "no_permission"
    /\ tasks[1].app_id \in PendingIds(store)
    /\ bulk.result = "no_permission"
    /\ \E x \in PendingIds(store) : store[x].created_at < now - CleanupDays
    /\ reply.op \in {"cleanup", "restore"}
    /\ reply.result = "ignored"

BulkRunning == bulk.pc \in {"loop", "sent"}

\* C37: a bulk operation works on a snapshot that does not change, never
\* goes back to an item it has handled, and, its publish calls returning,
\* completes and reports its result, whatever ingestions and single
\* decisions arrive while it runs.
C37_BulkTerminates ==
    /\ [][ (BulkRunning /\ bulk' # bulk)
              => /\ bulk'.pc = "done" \/ bulk'.pending_apps = bulk.pending_apps
                 /\ bulk'.pc = "loop" => bulk'.i > bulk.i
                 /\ bulk'.pc = "sent" => bulk.pc = "loop" /\ bulk'.i >= bulk.i
                 /\ bulk'.pc = "done" => bulk'.result = "completed" ]_vars
    /\ [](BulkRunning =>
             \A i, j \in DOMAIN bulk.pending_apps :
                 i # j => bulk.pending_apps[i].id # bulk.pending_apps[j].id)
    /\ (BulkRunning ~> (bulk.pc = "done" /\ bulk.result = "completed"))

\* a bulk approval has completed with an approval, while a submission that
\* arrived after its snapshot is pending and a single decision has ended
C37_Witness ==
    /\ bulk.pc = "done"
    /\ bulk.result = "completed"
    /\ bulk.processed_count >= 1
    /\ \E x \in DOMAIN store : store[x].status = "pending"
    /\ tasks[1].pc = "done"
    /\ ingested = MaxIngest

====
